---------------------------- MODULE Spec2Model ----------------------------
(***************************************************************************)
(* PokerOK Session Tracker (tracker.py): the record lifecycle              *)
(* (start / end / log / status / stats over active_session.json and        *)
(* sessions.csv) and the metrics engine (compute_metrics).                 *)
(*                                                                         *)
(* Units.  Money amounts (bankroll, buy-in, prize, bb_value, profit) are   *)
(* integers counting thousandths of a currency unit, so that an operator   *)
(* can type an amount with three decimals and round(x, 2) is a real        *)
(* rounding.  Rates (bb_profit, bb_per_100, roi) are integers counting     *)
(* hundredths.  Timestamps are integers counting seconds.                  *)
(* Python floats are modelled as exact decimals: a quotient is rounded     *)
(* from its exact value.  The amounts drawn below never put a subtraction  *)
(* on an exact tie of round(x, 2).                                         *)
(*                                                                         *)
(* An absent value ("" or None in the code) is the empty tuple; a present  *)
(* value v is <<v>>.                                                       *)
(*                                                                         *)
(* The wall clock (datetime.now(), local time) is an input of the command  *)
(* that reads it: it is not monotonic (a clock correction, the end of      *)
(* daylight saving time), so each reading is any value of Clock.           *)
(*                                                                         *)
(* The two files are read and written without I/O failure.                 *)
(***************************************************************************)
EXTENDS Integers, Sequences, FiniteSets, TLC

VARIABLES
    active,     \* active_session.json: None, or Some(draft record)
    rows,       \* sessions.csv: the sequence of data rows, oldest first
    next_id,    \* the next identifier uuid.uuid4() hands out
    last,       \* the command that ran last, its exit code and the error it reported
    m_in,       \* metrics engine alone: the session handed to compute_metrics
    m_out       \* metrics engine alone: None, or Some(what compute_metrics did)

vars == <<active, rows, next_id, last, m_in, m_out>>

None == <<>>
Some(v) == <<v>>
Val(o) == o[1]

---------------------------------------------------------------------------
(* Bounds of the model *)

MaxRows == 2          \* rows appended to sessions.csv
MaxHands == 3         \* the largest hand count typed

ClockStep == 30       \* seconds between the two readings of the clock

---------------------------------------------------------------------------
(* Program constants *)

POKER_ROOM == "PokerOK"
FORMATS == {"cash", "mtt", "spin"}

---------------------------------------------------------------------------
(* Helpers *)

\* Python 3 round(): the integer nearest to n / d (d > 0), ties to even.
RoundHalfEven(n, d) ==
    LET q == n \div d
        r == n % d
    IN  IF 2 * r < d THEN q
        ELSE IF 2 * r > d THEN q + 1
        ELSE IF q % 2 = 0 THEN q ELSE q + 1

\* round(x, 2) of an amount x given in thousandths: a multiple of 10.
round2(x) == 10 * RoundHalfEven(x, 10)

\* round(n / d, 2) in hundredths. The quotient is taken only under the caller's
\* guard d # 0; with d = 0 Python raises ZeroDivisionError instead (see
\* compute_metrics_raises) and the value here is not used.
round2_div(n, d) ==
    IF d = 0 THEN 0
    ELSE IF d > 0 THEN RoundHalfEven(100 * n, d)
    ELSE RoundHalfEven(-100 * n, -d)

\* _to_float / _to_int: "" and None are absent; a number is itself.
to_float(v) == IF v = None THEN None ELSE Some(Val(v))
to_int(v) == IF v = None THEN None ELSE Some(Val(v))

\* duration_minutes(start_iso, end_iso), timestamps in seconds.
duration_minutes(start_ts, end_ts) ==
    LET mins == RoundHalfEven(end_ts - start_ts, 60)
    IN  IF mins > 0 THEN mins ELSE 0

---------------------------------------------------------------------------
(* compute_metrics *)

IsTourney(fmt) == fmt \in {"mtt", "spin"}

\* Variant: the bankroll delta tried before the tournament totals.
profit_bankroll_first(fmt, buyin, prize, br_s, br_e, old) ==
    IF br_s # None /\ br_e # None THEN Some(round2(Val(br_e) - Val(br_s)))
    ELSE IF IsTourney(fmt) /\ buyin # None /\ prize # None
         THEN Some(round2(Val(prize) - Val(buyin)))
    ELSE old

\* The profit rule: the value of session["profit"] after lines 289-295.
profit_rule(fmt, buyin, prize, br_s, br_e, old) ==
    IF IsTourney(fmt) /\ buyin # None /\ prize # None
    THEN Some(round2(Val(prize) - Val(buyin)))
    ELSE IF br_s # None /\ br_e # None
         THEN Some(round2(Val(br_e) - Val(br_s)))
    ELSE old

\* Variant: a bb_value of 0 let through to the division.
bb_guard_nonneg(profit, bb_value) ==
    profit # None /\ bb_value # None /\ Val(bb_value) >= 0

\* The guard of the bb_profit division (line 302).
bb_guard(profit, bb_value) ==
    profit # None /\ bb_value # None /\ Val(bb_value) > 0

\* The guard of the bb_per_100 division (line 305).
hands_guard(hands) == hands # None /\ Val(hands) > 0

\* session["bb_profit"] (lines 303-304), in hundredths.
bb_profit_stored(profit, bb_value) == round2_div(profit, bb_value)

\* Variant: bb_per_100 from the stored, rounded bb_profit.
bb_per_100_from_stored(profit, bb_value, hands) ==
    round2_div(bb_profit_stored(profit, bb_value), hands)

\* session["bb_per_100"] (line 306): from the unrounded quotient
\* profit / bb_value held in the local bb_profit, in hundredths.
bb_per_100_rule(profit, bb_value, hands) ==
    round2_div(100 * profit, bb_value * hands)

\* The guard of the ROI division (line 311).
roi_guard(buyin, profit) == buyin # None /\ Val(buyin) > 0 /\ profit # None

\* session["roi"] (line 312), in hundredths.
roi_rule(profit, buyin) == round2_div(100 * profit, buyin)

\* The session after lines 277-295: duration and profit filled in.
with_profit(session) ==
    LET s1 == IF session.duration_min = None
                 /\ session.start_ts # None /\ session.end_ts # None
              THEN [session EXCEPT !.duration_min =
                       Some(duration_minutes(Val(session.start_ts), Val(session.end_ts)))]
              ELSE session
    IN  [s1 EXCEPT !.profit =
            profit_rule(s1.format, to_float(s1.buyin_total), to_float(s1.prize_total),
                        to_float(s1.bankroll_start), to_float(s1.bankroll_end),
                        s1.profit)]

\* Whether a division of compute_metrics is reached with a zero divisor, which
\* raises ZeroDivisionError out of compute_metrics.
compute_metrics_raises(session) ==
    LET s == with_profit(session)
        profit == to_float(s.profit)
    IN  \/ /\ s.format = "cash"
           /\ bb_guard(profit, to_float(s.bb_value))
           /\ \/ Val(to_float(s.bb_value)) = 0
              \/ hands_guard(to_int(s.hands)) /\ Val(to_int(s.hands)) = 0
        \/ /\ IsTourney(s.format)
           /\ roi_guard(to_float(s.buyin_total), profit)
           /\ Val(to_float(s.buyin_total)) = 0

\* compute_metrics(session): the session with its derived fields filled in.
compute_metrics(session) ==
    LET s2 == with_profit(session)
        profit == to_float(s2.profit)
        hands == to_int(s2.hands)
        bb_value == to_float(s2.bb_value)
        buyin == to_float(s2.buyin_total)
        s3 == IF s2.format = "cash" /\ bb_guard(profit, bb_value)
              THEN LET s == [s2 EXCEPT !.bb_profit =
                                Some(bb_profit_stored(Val(profit), Val(bb_value)))]
                   IN  IF hands_guard(hands)
                       THEN [s EXCEPT !.bb_per_100 =
                                Some(bb_per_100_rule(Val(profit), Val(bb_value), Val(hands)))]
                       ELSE s
              ELSE s2
    IN  IF IsTourney(s3.format) /\ roi_guard(buyin, profit)
        THEN [s3 EXCEPT !.roi = Some(roi_rule(Val(profit), Val(buyin)))]
        ELSE s3

---------------------------------------------------------------------------
(* Text the operator types and its parsing *)

\* parse_date_yyyy_mm_dd: the day number of a YYYY-MM-DD text (day 0 starts at
\* second 0 of the clock); absent stands for the ValueError of strptime.
parse_date_yyyy_mm_dd(s) ==
    CASE s = "1970-01-01" -> Some(0)
      [] s = "1970-01-02" -> Some(1)
      [] OTHER -> None

\* parse_time_hh_mm: the minute of the day of an HH:MM text, or absent.
parse_time_hh_mm(s) ==
    CASE s = "00:00" -> Some(0)
      [] s = "12:00" -> Some(720)
      [] s = "23:59" -> Some(1439)
      [] OTHER -> None

\* datetime(d.year, d.month, d.day, h, m, 0) in seconds.
datetime_of(day, minute) == day * 86400 + minute * 60

---------------------------------------------------------------------------
(* Storage *)

\* Variant: a missing file read as an empty template draft.
load_active_template(file) ==
    IF file = None
    THEN Some([id |-> 0, poker_room |-> POKER_ROOM, format |-> "cash", stake |-> "",
               currency |-> "", start_ts |-> Some(0), end_ts |-> None,
               duration_min |-> None, bankroll_start |-> None, bankroll_end |-> None,
               profit |-> None, tables |-> None, note |-> "", hands |-> None,
               bb_value |-> None, bb_profit |-> None, bb_per_100 |-> None,
               buyin_total |-> None, prize_total |-> None, roi |-> None])
    ELSE file

\* load_active: the draft, or None when the file is missing.
load_active(file) == file

\* Variant: the draft file left in place.
clear_active_keep(file) == file

\* clear_active: the draft file is removed.
clear_active(file) == None

\* Variant: the file opened for writing, not appending.
append_row_truncate(file_rows, row) == <<row>>

\* append_row: the row goes after the rows already in the file.
append_row(file_rows, row) == Append(file_rows, row)

\* read_rows: the data rows of the file, in file order.
read_rows(file_rows) == file_rows

---------------------------------------------------------------------------
(* Inputs the commands draw *)

Stakes == {"NL10"}
Currencies == {"USD"}
StartBankrolls == {1000}
EndBankrolls == {1507}
TablesIn == {None}
StartNotes == {"warmup"}
EndNotes == {"gg"}

\* "BB value" prompt: an amount >= 0.
BbValueIn == {Some(0), Some(100)}
\* "buy-in total and prize total" prompt at the end of a draft: an mtt draft
\* gives both amounts, a spin draft declines.
TourneyIn(fmt) == IF fmt = "mtt" THEN {Some(<<1000, 2507>>)} ELSE {None}

\* One-shot entries by times of day: format, date, start time, end time.
LogTimesEntries ==
    {<<"cash", "1970-01-01", "12:00", "12:00">>,
     <<"mtt", "1970-01-01", "00:00", "12:00">>,
     <<"spin", "1970-01-01", "12:00", "25:00">>,
     <<"cash", "01.01.1970", "00:00", "12:00">>}
\* One-shot entries by duration: format, date.
LogDurationEntries == {<<"spin", "1970-01-01">>, <<"mtt", "01.01.1970">>}
DurationsIn == {1}
\* What iso_now() / datetime.now() may read.
Clock == {0, ClockStep}

\* The arguments of `stats`: absent, or a text.
StatsArgs ==
    {<<None, None, None>>,
     <<Some("1970-01-01"), Some("1970-01-02"), Some("cash")>>,
     <<None, None, Some("mtt")>>,
     <<Some("yesterday"), None, None>>,
     <<None, Some("yesterday"), Some("spin")>>,
     <<None, None, Some("omaha")>>}

---------------------------------------------------------------------------
(* Commands *)

\* What a command leaves behind: its exit code and the error it printed, named
\* by its kind. `args` and `out` are the filter and the summary of a `stats`
\* call, absent for the other commands.
Exit(cmd, rc, err) ==
    [cmd |-> cmd, rc |-> rc, err |-> err, args |-> None, out |-> None]

\* Variant: every session given the same id.
new_draft_same_id(id, fmt, stake, currency, start_ts, bankroll_start, tables, note) ==
    [id |-> 1, poker_room |-> POKER_ROOM, format |-> fmt, stake |-> stake,
     currency |-> currency, start_ts |-> Some(start_ts), end_ts |-> None,
     duration_min |-> None, bankroll_start |-> Some(bankroll_start),
     bankroll_end |-> None, profit |-> None, tables |-> tables, note |-> note,
     hands |-> None, bb_value |-> None, bb_profit |-> None, bb_per_100 |-> None,
     buyin_total |-> None, prize_total |-> None, roi |-> None]

\* The draft cmd_start builds (lines 366-387).
new_draft(id, fmt, stake, currency, start_ts, bankroll_start, tables, note) ==
    [id |-> id, poker_room |-> POKER_ROOM, format |-> fmt, stake |-> stake,
     currency |-> currency, start_ts |-> Some(start_ts), end_ts |-> None,
     duration_min |-> None, bankroll_start |-> Some(bankroll_start),
     bankroll_end |-> None, profit |-> None, tables |-> tables, note |-> note,
     hands |-> None, bb_value |-> None, bb_profit |-> None, bb_per_100 |-> None,
     buyin_total |-> None, prize_total |-> None, roi |-> None]

\* Variant: start without looking for a draft.
start_blocked_never(a) == FALSE

\* The guard of cmd_start (line 351): a draft is already there.
start_blocked(a) == a # None

cmd_start(fmt, stake, currency, bankroll_start, tables, note, clock) ==
    /\ IF start_blocked(load_active(active))
       THEN /\ last' = Exit("start", 2, "AlreadyActive")
            /\ UNCHANGED <<active, rows, next_id>>
       ELSE /\ active' = Some(new_draft(next_id, fmt, stake, currency, clock,
                                        bankroll_start, tables, note))
            /\ next_id' = next_id + 1
            /\ last' = Exit("start", 0, "")
            /\ UNCHANGED rows
    /\ UNCHANGED <<m_in, m_out>>

cmd_status ==
    /\ last' = Exit("status", 0, "")
    /\ UNCHANGED <<active, rows, next_id, m_in, m_out>>

\* Variant: every format-specific prompt asked whatever the format.
end_inputs_all_prompts(a, bankroll_end, hands, bb_value, tourney, note_end, end_ts) ==
    LET a1 == IF hands # None THEN [a EXCEPT !.hands = hands] ELSE a
        a2 == IF bb_value # None /\ Val(bb_value) # 0
              THEN [a1 EXCEPT !.bb_value = bb_value] ELSE a1
        a3 == IF tourney # None
              THEN [a2 EXCEPT !.buyin_total = Some(Val(tourney)[1]),
                              !.prize_total = Some(Val(tourney)[2])]
              ELSE a2
        a4 == IF note_end # ""
              THEN [a3 EXCEPT !.note =
                       IF a3.note # "" THEN a3.note \o " | " \o note_end ELSE note_end]
              ELSE a3
    IN  [a4 EXCEPT !.bankroll_end = Some(bankroll_end), !.end_ts = Some(end_ts)]

\* The draft in memory after the prompts of cmd_end (lines 440-468).
end_inputs(a, bankroll_end, hands, bb_value, tourney, note_end, end_ts) ==
    LET a1 == IF a.format = "cash" /\ hands # None
              THEN [a EXCEPT !.hands = hands] ELSE a
        a2 == IF a.format = "cash" /\ bb_value # None /\ Val(bb_value) # 0
              THEN [a1 EXCEPT !.bb_value = bb_value] ELSE a1
        a3 == IF IsTourney(a.format) /\ tourney # None
              THEN [a2 EXCEPT !.buyin_total = Some(Val(tourney)[1]),
                              !.prize_total = Some(Val(tourney)[2])]
              ELSE a2
        a4 == IF note_end # ""
              THEN [a3 EXCEPT !.note =
                       IF a3.note # "" THEN a3.note \o " | " \o note_end ELSE note_end]
              ELSE a3
    IN  [a4 EXCEPT !.bankroll_end = Some(bankroll_end), !.end_ts = Some(end_ts)]

\* Variant: an end in the same second as the start accepted.
bad_time_range_strict(start_ts, end_ts) == end_ts < start_ts

\* The chronological check of cmd_end (line 472).
bad_time_range(start_ts, end_ts) == end_ts <= start_ts

cmd_end(bankroll_end, hands, bb_value, tourney, note_end, clock) ==
    /\ IF load_active(active) = None
       THEN /\ last' = Exit("end", 2, "NoActiveSession")
            /\ UNCHANGED <<active, rows, next_id>>
       ELSE LET a == end_inputs(Val(load_active(active)), bankroll_end, hands,
                                bb_value, tourney, note_end, clock)
            IN  IF bad_time_range(Val(a.start_ts), Val(a.end_ts))
                THEN /\ last' = Exit("end", 2, "InvalidTimeRange")
                     /\ UNCHANGED <<active, rows, next_id>>
                ELSE IF compute_metrics_raises(a)
                THEN /\ last' = Exit("end", 1, "ZeroDivisionError")
                     /\ UNCHANGED <<active, rows, next_id>>
                ELSE /\ Len(rows) < MaxRows
                     /\ rows' = append_row(rows, compute_metrics(a))
                     /\ active' = clear_active(active)
                     /\ last' = Exit("end", 0, "")
                     /\ UNCHANGED next_id
    /\ UNCHANGED <<m_in, m_out>>

\* Variant: the end of a one-shot entry never moved to the next day.
log_times_no_roll(day, sm, em) ==
    <<datetime_of(day, sm), datetime_of(day, em)>>

\* The start and end of a one-shot entry given as times of day (lines 515-523):
\* an end not after the start is moved to the next day.
log_times(day, sm, em) ==
    LET start_dt == datetime_of(day, sm)
        end_dt == datetime_of(day, em)
    IN  <<start_dt, IF end_dt <= start_dt THEN end_dt + 86400 ELSE end_dt>>

\* The start and end of a one-shot entry given as a duration (lines 526-531).
log_duration(dur_min, clock) == <<clock - 60 * dur_min, clock>>

\* The session cmd_log builds (lines 542-576).
log_session(id, fmt, stake, currency, span, dur_min, br_s, br_e, tables, note, hands, bb_value, tourney) ==
    LET s0 == [new_draft(id, fmt, stake, currency, span[1], br_s, tables, note)
                  EXCEPT !.end_ts = Some(span[2]),
                         !.duration_min = Some(dur_min),
                         !.bankroll_end = Some(br_e)]
        s1 == IF fmt = "cash" /\ hands # None
              THEN [s0 EXCEPT !.hands = hands] ELSE s0
        s2 == IF fmt = "cash" /\ bb_value # None /\ Val(bb_value) > 0
              THEN [s1 EXCEPT !.bb_value = bb_value] ELSE s1
    IN  IF IsTourney(fmt) /\ tourney # None
        THEN [s2 EXCEPT !.buyin_total = Some(Val(tourney)[1]),
                        !.prize_total = Some(Val(tourney)[2])]
        ELSE s2

\* Variant: the one-shot log ends like cmd_end, removing the draft.
log_commit_clears(session) ==
    /\ Len(rows) < MaxRows
    /\ rows' = append_row(rows, compute_metrics(session))
    /\ active' = clear_active(active)
    /\ next_id' = next_id + 1
    /\ last' = Exit("log", 0, "")

\* The end of cmd_log (lines 578-584): the session is computed and appended.
log_commit(session) ==
    IF compute_metrics_raises(session)
    THEN /\ last' = Exit("log", 1, "ZeroDivisionError")
         /\ UNCHANGED <<active, rows, next_id>>
    ELSE /\ Len(rows) < MaxRows
         /\ rows' = append_row(rows, compute_metrics(session))
         /\ next_id' = next_id + 1
         /\ last' = Exit("log", 0, "")
         /\ UNCHANGED active

\* cmd_log with start/end times of day.
cmd_log_times(fmt, date_text, st, en, br_e, hands, bb_value, tourney) ==
    /\ LET d == parse_date_yyyy_mm_dd(date_text)
           sm == parse_time_hh_mm(st)
           em == parse_time_hh_mm(en)
       IN  IF d = None \/ sm = None \/ em = None
           THEN /\ last' = Exit("log", 2, IF d = None THEN "BadDate" ELSE "BadTime")
                /\ UNCHANGED <<active, rows, next_id>>
           ELSE LET span == log_times(Val(d), Val(sm), Val(em))
                IN  \E stake \in Stakes, currency \in Currencies,
                       br_s \in StartBankrolls, tables \in TablesIn, note \in StartNotes :
                        log_commit(log_session(next_id, fmt, stake, currency, span,
                                       duration_minutes(span[1], span[2]),
                                       br_s, br_e, tables, note, hands, bb_value, tourney))
    /\ UNCHANGED <<m_in, m_out>>

\* cmd_log with a duration: the entry ends now.
cmd_log_duration(fmt, date_text, dur_min, br_e, hands, bb_value, tourney, clock) ==
    /\ IF parse_date_yyyy_mm_dd(date_text) = None
       THEN /\ last' = Exit("log", 2, "BadDate")
            /\ UNCHANGED <<active, rows, next_id>>
       ELSE \E stake \in Stakes, currency \in Currencies,
               br_s \in StartBankrolls, tables \in TablesIn, note \in StartNotes :
                log_commit(log_session(next_id, fmt, stake, currency,
                               log_duration(dur_min, clock), dur_min,
                               br_s, br_e, tables, note, hands, bb_value, tourney))
    /\ UNCHANGED <<m_in, m_out>>

\* The error cmd_stats reports (lines 629-653): none when the collection is
\* empty or the arguments are well formed.
stats_error(file_rows, from_date, to_date, fmt_arg) ==
    IF read_rows(file_rows) = <<>> THEN ""
    ELSE IF from_date # None /\ parse_date_yyyy_mm_dd(Val(from_date)) = None THEN "BadFrom"
    ELSE IF to_date # None /\ parse_date_yyyy_mm_dd(Val(to_date)) = None THEN "BadTo"
    ELSE IF fmt_arg # None /\ Val(fmt_arg) \notin FORMATS THEN "BadFormat"
    ELSE ""

\* `_to_float(v) or 0.0`, `_to_int(v) or 0`: an absent value counts as 0.
or_zero(v) == IF v = None THEN 0 ELSE Val(v)

\* dt_from_iso(st).date(): the day of a timestamp.
date_of(ts) == ts \div 86400

\* The filter loop of cmd_stats (lines 655-669) for one record.
stats_keeps(r, from_d, to_d, fmt_filter) ==
    /\ fmt_filter = None \/ r.format = Val(fmt_filter)
    /\ r.start_ts # None
    /\ from_d = None \/ date_of(Val(r.start_ts)) >= Val(from_d)
    /\ to_d = None \/ date_of(Val(r.start_ts)) <= Val(to_d)

\* filt: the records the filter keeps, in file order.
filt_of(file_rows, from_date, to_date, fmt_arg) ==
    LET from_d == IF from_date = None THEN None ELSE parse_date_yyyy_mm_dd(Val(from_date))
        to_d == IF to_date = None THEN None ELSE parse_date_yyyy_mm_dd(Val(to_date))
    IN  SelectSeq(read_rows(file_rows),
                  LAMBDA r : stats_keeps(r, from_d, to_d, fmt_arg))

\* The records of one format.
of_format(filt, f) == SelectSeq(filt, LAMBDA r : r.format = f)

\* The sum the aggregation loop accumulates for one field (lines 683-706).
RECURSIVE ag_sum(_, _)
ag_sum(filt, field) ==
    IF filt = <<>> THEN 0
    ELSE or_zero(Head(filt)[field]) + ag_sum(Tail(filt), field)

\* profit / (minutes / 60), as fmt_float prints it (lines 708-709, 734-736).
pph_rule(profit, minutes) ==
    IF minutes > 0 THEN Some(RoundHalfEven(6 * profit, minutes)) ELSE None

\* Variant: the mean of the records' own bb_per_100.
stats_bb100_average(filt) ==
    LET cash == of_format(filt, "cash")
    IN  IF ag_sum(cash, "hands") > 0
        THEN Some(RoundHalfEven(ag_sum(cash, "bb_per_100"), Len(cash)))
        ELSE None

\* The cash bb/100 of the summary (line 747), as fmt_float prints it: from
\* the summed bb_profit and the summed hands.
stats_bb100(filt) ==
    LET cash == of_format(filt, "cash")
        hands == ag_sum(cash, "hands")
        bb_profit == ag_sum(cash, "bb_profit")
    IN  IF hands > 0 THEN Some(RoundHalfEven(100 * bb_profit, hands)) ELSE None

\* The ROI of a tournament format in the summary (lines 756-759), as
\* fmt_float prints it: from the summed prizes and buy-ins.
stats_roi(filt, f) ==
    LET buyin == ag_sum(of_format(filt, f), "buyin_total")
        prize == ag_sum(of_format(filt, f), "prize_total")
    IN  IF buyin > 0
        THEN Some(RoundHalfEven(10000 * (prize - buyin), buyin))
        ELSE None

\* The breakdown of one format (lines 729-766); absent when the format has no
\* record.
breakdown(filt, f) ==
    LET rs == of_format(filt, f)
        minutes == ag_sum(rs, "duration_min")
        prof == ag_sum(rs, "profit")
    IN  IF rs = <<>> THEN None
        ELSE Some([sessions |-> Len(rs),
                   profit |-> round2(prof),
                   minutes |-> minutes,
                   pph |-> pph_rule(prof, minutes),
                   hands |-> IF f = "cash" THEN Some(ag_sum(rs, "hands")) ELSE None,
                   bb100 |-> IF f = "cash" THEN stats_bb100(filt) ELSE None,
                   buyin |-> IF IsTourney(f) THEN Some(ag_sum(rs, "buyin_total")) ELSE None,
                   prize |-> IF IsTourney(f) THEN Some(ag_sum(rs, "prize_total")) ELSE None,
                   roi |-> IF IsTourney(f) THEN stats_roi(filt, f) ELSE None])

\* The summary cmd_stats prints (lines 675-766).
summary(filt) ==
    LET total_profit == ag_sum(filt, "profit")
        total_minutes == ag_sum(filt, "duration_min")
    IN  [sessions |-> Len(filt),
         profit |-> round2(total_profit),
         minutes |-> total_minutes,
         avg |-> RoundHalfEven(total_minutes, Len(filt)),
         pph |-> pph_rule(total_profit, total_minutes),
         by |-> [f \in FORMATS |-> breakdown(filt, f)]]

\* Variant: the collection rewritten with the filtered records.
stats_rows_filtered(file_rows, filt) == filt

\* cmd_stats only reads the collection.
stats_rows(file_rows, filt) == file_rows

cmd_stats(from_date, to_date, fmt_arg) ==
    /\ LET err == stats_error(rows, from_date, to_date, fmt_arg)
           filt == filt_of(rows, from_date, to_date, fmt_arg)
           args == Some(<<from_date, to_date, fmt_arg>>)
       IN  IF err # ""
           THEN /\ last' = [Exit("stats", 2, err) EXCEPT !.args = args]
                /\ UNCHANGED rows
           ELSE /\ last' = [Exit("stats", 0, "") EXCEPT
                               !.args = args,
                               !.out = IF filt = <<>> THEN None ELSE Some(summary(filt))]
                /\ rows' = stats_rows(rows, filt)
    /\ UNCHANGED <<active, next_id, m_in, m_out>>

---------------------------------------------------------------------------
(* The tracker: any sequence of commands *)

NoSession == new_draft(0, "cash", "", "", 0, 0, None, "")

Init ==
    /\ active = None
    /\ rows = <<>>
    /\ next_id = 1
    /\ last = Exit("none", 0, "")
    /\ m_in = NoSession
    /\ m_out = None

\* What the operator has ready for the format-specific prompts: hands, BB
\* value, tournament totals. Which of them are asked for is decided by
\* end_inputs and log_session. An operator who gives a BB value also gives the
\* hand count.
HandsOf(b) == IF Val(b) = 0 THEN None ELSE Some(MaxHands)

FormatInputs(fmt) ==
    {<<HandsOf(b), b, t>> : b \in BbValueIn, t \in TourneyIn(fmt)}

\* The one-shot entries have amounts ready for every prompt.
LogInputs(fmt) == <<Some(MaxHands), Some(100), Some(<<1000, 2507>>)>>

Start ==
    \E fmt \in FORMATS, stake \in Stakes, currency \in Currencies,
       br_s \in StartBankrolls, tables \in TablesIn, note \in StartNotes,
       clock \in Clock :
        cmd_start(fmt, stake, currency, br_s, tables, note, clock)

Status == cmd_status

End ==
    \E br_e \in EndBankrolls, note_end \in EndNotes, clock \in Clock :
        \E i \in FormatInputs(IF active = None THEN "cash" ELSE Val(active).format) :
            cmd_end(br_e, i[1], i[2], i[3], note_end, clock)

LogTimes ==
    \E e \in LogTimesEntries, br_e \in EndBankrolls :
        cmd_log_times(e[1], e[2], e[3], e[4], br_e,
                      LogInputs(e[1])[1], LogInputs(e[1])[2], LogInputs(e[1])[3])

LogDuration ==
    \E e \in LogDurationEntries, dur_min \in DurationsIn, br_e \in EndBankrolls,
       clock \in Clock :
        cmd_log_duration(e[1], e[2], dur_min, br_e,
                         LogInputs(e[1])[1], LogInputs(e[1])[2], LogInputs(e[1])[3], clock)

Stats ==
    \E a \in StatsArgs : cmd_stats(a[1], a[2], a[3])

Next == Start \/ Status \/ End \/ LogTimes \/ LogDuration \/ Stats

Spec == Init /\ [][Next]_vars

---------------------------------------------------------------------------
(* The metrics engine alone: compute_metrics applied to any session *)

MetricAmounts == {None, Some(0), Some(100), Some(1507)}
MetricHands == {None, Some(0), Some(MaxHands)}

MetricSessions ==
    {[new_draft(1, fmt, "NL10", "", 0, 0, None, "")
         EXCEPT !.end_ts = Some(ClockStep),
                !.bankroll_start = br_s, !.bankroll_end = br_e,
                !.hands = hands, !.bb_value = bb_value,
                !.buyin_total = buyin, !.prize_total = prize] :
        fmt \in FORMATS, br_s \in MetricAmounts, br_e \in MetricAmounts,
        hands \in MetricHands, bb_value \in MetricAmounts,
        buyin \in MetricAmounts, prize \in MetricAmounts}

InitMetrics ==
    /\ active = None
    /\ rows = <<>>
    /\ next_id = 1
    /\ last = Exit("none", 0, "")
    /\ m_in \in MetricSessions
    /\ m_out = None

ApplyMetrics ==
    /\ m_out = None
    /\ m_out' = Some([raised |-> compute_metrics_raises(m_in),
                      session |-> IF compute_metrics_raises(m_in)
                                  THEN m_in ELSE compute_metrics(m_in)])
    /\ UNCHANGED <<active, rows, next_id, last, m_in>>

NextMetrics == ApplyMetrics

SpecMetrics == InitMetrics /\ [][NextMetrics]_vars

---------------------------------------------------------------------------
(* The aggregator alone: cmd_stats applied to any collection *)

\* What the records of a collection were entered with: format, day, hands,
\* BB value, closing bankroll, tournament totals.
StatCash ==
    {<<"cash", 0, Some(1), Some(100), 1507, None>>,
     <<"cash", 1, Some(MaxHands), Some(100), 900, None>>,
     <<"cash", 0, Some(MaxHands), None, 1507, None>>}
StatTourney ==
    {<<"mtt", 0, None, None, 1507, Some(<<1000, 2507>>)>>,
     <<"mtt", 1, None, None, 1507, Some(<<500, 0>>)>>,
     <<"mtt", 0, None, None, 1507, None>>,
     <<"spin", 0, None, None, 1507, Some(<<1000, 2507>>)>>,
     <<"spin", 1, None, None, 1507, Some(<<500, 0>>)>>,
     <<"spin", 1, None, None, 1507, None>>}

\* The record cmd_log appends for such an entry.
StatRecord(id, e) ==
    compute_metrics(log_session(id, e[1], "NL10", "USD",
                                log_times(e[2], 0, 720), 720,
                                1000, e[5], None, "", e[3], e[4], e[6]))

StatRows ==
    UNION {{[i \in 1..n |-> StatRecord(i, es[i])] :
                es \in [1..n -> StatCash \cup StatTourney]} : n \in 0..MaxRows}

InitStats ==
    /\ active = None
    /\ rows \in StatRows
    /\ next_id = Len(rows) + 1
    /\ last = Exit("none", 0, "")
    /\ m_in = NoSession
    /\ m_out = None

NextStats == Stats

SpecStats == InitStats /\ [][NextStats]_vars

---------------------------------------------------------------------------
(* Claims *)

IsPrefix(s, t) == Len(s) <= Len(t) /\ SubSeq(t, 1, Len(s)) = s

\* The step appends exactly one record to the collection.
AppendsOne == Len(rows') = Len(rows) + 1 /\ IsPrefix(rows, rows')

Ran(cmd, rc) == last.cmd = cmd /\ last.rc = rc

\* C1: whenever a draft is present, start fails (AlreadyActive, exit code 2)
\* and leaves the draft and the persisted collection as they were; a second
\* start never replaces the first draft.
C1_StartWithDraftFails ==
    [][(active # None /\ last'.cmd = "start")
          => (last'.rc = 2 /\ last'.err = "AlreadyActive"
              /\ active' = active /\ rows' = rows)]_vars

C1_Witness == Ran("start", 2) /\ active # None

C3_InvalidTimeRangeKeepsDraft ==
    [][(active # None /\ last'.cmd = "end")
         => \A clock \in Clock, br_e \in EndBankrolls, note_end \in EndNotes :
              \A i \in FormatInputs(Val(active).format) :
                  (/\ clock <= Val(Val(active).start_ts)
                   /\ cmd_end(br_e, i[1], i[2], i[3], note_end, clock))
                    => (last'.rc = 2 /\ last'.err = "InvalidTimeRange"
                        /\ rows' = rows /\ active' = active)]_vars

\* The draft started at the later clock reading is still there after an end
\* failed: the end was stamped at or before its start.
C3_Witness ==
    /\ Ran("end", 2)
    /\ active # None
    /\ Val(Val(active).start_ts) = ClockStep
    /\ Val(active).end_ts = None /\ Val(active).bankroll_end = None

\* C4: every persisted record has end_time strictly after start_time.
C4_EndAfterStart ==
    \A i \in 1..Len(rows) :
        /\ rows[i].start_ts # None /\ rows[i].end_ts # None
        /\ Val(rows[i].end_ts) > Val(rows[i].start_ts)

\* A one-shot record whose end time of day equals its start time of day, next
\* to a record finalized from a draft.
C4_Witness ==
    /\ Len(rows) = 2
    /\ \E i \in 1..2 : Val(rows[i].end_ts) = Val(rows[i].start_ts) + 86400
    /\ \E i \in 1..2 : rows[i].note = "warmup | gg"

\* C5: a one-shot log leaves the draft as it was, appends exactly one record
\* when it returns 0 and nothing otherwise; it fails (exit code 2) only on a
\* malformed date or time, never on the draft being present or absent.
C5_LogLeavesDraft ==
    [][last'.cmd = "log"
         => /\ active' = active
            /\ last'.rc \in {0, 2}
            /\ last'.rc = 0 => AppendsOne
            /\ last'.rc = 2 => (rows' = rows /\ last'.err \in {"BadDate", "BadTime"})]_vars

C5_Witness == Ran("log", 0) /\ active # None /\ Len(rows) = 2

\* C6: the collection before any step is a prefix of the collection after it.
C6_AppendOnly == [][IsPrefix(rows, rows')]_vars

\* A record appended after an earlier one: the two ids are in the order drawn.
C6_Witness == Len(rows) = 2 /\ rows[1].id < rows[2].id /\ last.rc = 0

\* C7: with no draft, end fails with exit code 2, creates no draft and appends
\* nothing.
C7_EndWithoutDraftFails ==
    [][(active = None /\ last'.cmd = "end")
          => (last'.rc = 2 /\ last'.err = "NoActiveSession"
              /\ active' = None /\ rows' = rows)]_vars

C7_Witness == Ran("end", 2) /\ active = None

---------------------------------------------------------------------------
(* Claims about compute_metrics alone (SpecMetrics) *)

Computed == m_out # None
Out == Val(m_out).session

TourneyTotals == IsTourney(m_in.format) /\ m_in.buyin_total # None /\ m_in.prize_total # None
BankrollBoth == m_in.bankroll_start # None /\ m_in.bankroll_end # None

\* C8 as stated: the profit is the exact difference.
C8_ProfitExactDifference ==
    Computed =>
        IF TourneyTotals
        THEN Out.profit = Some(Val(m_in.prize_total) - Val(m_in.buyin_total))
        ELSE IF BankrollBoth
        THEN Out.profit = Some(Val(m_in.bankroll_end) - Val(m_in.bankroll_start))
        ELSE Out.profit = None

\* C8: profit by precedence: for a tournament/spin record with both totals,
\* prize_total - buyin_total rounded to 2 decimals, whatever the bankroll
\* fields; otherwise bankroll_end - bankroll_start rounded to 2 decimals when
\* both are present; otherwise absent.
C8_ProfitPrecedence ==
    Computed =>
        IF TourneyTotals
        THEN Out.profit = Some(round2(Val(m_in.prize_total) - Val(m_in.buyin_total)))
        ELSE IF BankrollBoth
        THEN Out.profit = Some(round2(Val(m_in.bankroll_end) - Val(m_in.bankroll_start)))
        ELSE Out.profit = None

\* A tournament record whose totals and bankroll fields give different profits.
C8_Witness ==
    /\ Computed /\ TourneyTotals /\ BankrollBoth
    /\ Val(m_in.prize_total) - Val(m_in.buyin_total)
          # Val(m_in.bankroll_end) - Val(m_in.bankroll_start)
    /\ Out.profit # None

\* C9: for a cash record bb_profit is present exactly when profit and bb_value
\* are present and bb_value > 0, and is then profit / bb_value rounded to 2
\* decimals; bb_value 0 or absent leaves bb_profit and bb_per_100 absent and
\* divides nothing by zero; hands 0 or absent leaves bb_per_100 absent.
C9_BbProfitGuarded ==
    (Computed /\ m_in.format = "cash") =>
        /\ ~Val(m_out).raised
        /\ Out.bb_profit # None
              <=> (Out.profit # None /\ m_in.bb_value # None /\ Val(m_in.bb_value) > 0)
        /\ Out.bb_profit # None
              => Out.bb_profit = Some(RoundHalfEven(100 * Val(Out.profit), Val(m_in.bb_value)))
        /\ (m_in.bb_value = None \/ Val(m_in.bb_value) = 0)
              => (Out.bb_profit = None /\ Out.bb_per_100 = None)
        /\ (m_in.hands = None \/ Val(m_in.hands) = 0) => Out.bb_per_100 = None

\* A cash record with a profit and a bb_value of 0.
C9_Witness ==
    /\ Computed /\ m_in.format = "cash"
    /\ m_in.bb_value = Some(0) /\ Out.profit # None /\ m_in.hands # None

BbPer100Computed ==
    /\ Computed /\ m_in.format = "cash"
    /\ Out.bb_profit # None /\ m_in.hands # None /\ Val(m_in.hands) > 0

\* C10 as stated: bb_per_100 is (stored bb_profit / hands) * 100 rounded to 2
\* decimals.
C10_FromStoredBbProfit ==
    BbPer100Computed =>
        Out.bb_per_100 = Some(RoundHalfEven(100 * Val(Out.bb_profit), Val(m_in.hands)))

\* C10: bb_per_100 is ((profit / bb_value) / hands) * 100 rounded to 2 decimals,
\* the quotient profit / bb_value taken unrounded.
C10_FromUnroundedQuotient ==
    BbPer100Computed =>
        Out.bb_per_100 = Some(RoundHalfEven(100 * 100 * Val(Out.profit),
                                            Val(m_in.bb_value) * Val(m_in.hands)))

\* A record on which the stored bb_profit would give another bb_per_100.
C10_Witness ==
    /\ BbPer100Computed
    /\ Out.bb_per_100 # Some(RoundHalfEven(100 * Val(Out.bb_profit), Val(m_in.hands)))

---------------------------------------------------------------------------
(* Aggregator *)

\* The records a stats call with filter a aggregates, and what it printed.
Filtered == filt_of(rows, Val(last.args)[1], Val(last.args)[2], Val(last.args)[3])
Summarised == last.cmd = "stats" /\ last.out # None
By(f) == Val(Val(last.out).by[f])

\* C11: the summary's rates come from summed totals over the filtered
\* records: cash bb/100 is (sum of bb_profit / sum of hands) * 100 when the
\* summed hands are positive and absent otherwise; the ROI of mtt and of spin
\* is ((sum of prizes - sum of buy-ins) / sum of buy-ins) * 100 when the
\* summed buy-in is positive and absent otherwise (both as printed, to two
\* decimals).
C11_RatesFromSums ==
    Summarised =>
        /\ Val(last.out).by["cash"] # None =>
              LET cash == of_format(Filtered, "cash")
                  H == ag_sum(cash, "hands")
                  S == ag_sum(cash, "bb_profit")
              IN  By("cash").bb100 =
                      IF H > 0 THEN Some(RoundHalfEven(100 * S, H)) ELSE None
        /\ \A f \in {"mtt", "spin"} :
              Val(last.out).by[f] # None =>
                  LET B == ag_sum(of_format(Filtered, f), "buyin_total")
                      P == ag_sum(of_format(Filtered, f), "prize_total")
                  IN  By(f).roi =
                          IF B > 0 THEN Some(RoundHalfEven(10000 * (P - B), B))
                          ELSE None

\* Two cash records whose summed bb/100 differs from the mean of their own
\* bb_per_100 have been summarised.
C11_Witness ==
    /\ Summarised
    /\ Len(of_format(Filtered, "cash")) = 2
    /\ \A i \in 1..2 : of_format(Filtered, "cash")[i].bb_per_100 # None
    /\ Val(last.out).by["cash"] # None
    /\ By("cash").bb100 # None
    /\ By("cash").bb100 # stats_bb100_average(Filtered)

\* A malformed from or to date, or a format outside the enum.
BadStatsArgs(a) ==
    \/ a[1] # None /\ parse_date_yyyy_mm_dd(Val(a[1])) = None
    \/ a[2] # None /\ parse_date_yyyy_mm_dd(Val(a[2])) = None
    \/ a[3] # None /\ Val(a[3]) \notin FORMATS

\* C12: a stats call with a malformed from/to date or a format outside the
\* enum exits with code 2, prints no statistics and changes neither the
\* collection nor the draft, whatever the collection holds, an empty or
\* missing one included.
C12_StatsValidationError ==
    [][(last'.cmd = "stats" /\ BadStatsArgs(Val(last'.args))) =>
          (last'.rc = 2 /\ last'.out = None /\ rows' = rows /\ active' = active)]_vars

\* C13: a stats call changes neither the collection nor the draft, and a
\* second call with the same filter right after it exits with the same code
\* and prints the same summary, whatever commands came before the two.
C13_StatsReadOnlyIdempotent ==
    [][last'.cmd = "stats" =>
          /\ rows' = rows
          /\ active' = active
          /\ (last.cmd = "stats" /\ last'.args = last.args) =>
                (last'.rc = last.rc /\ last'.out = last.out)]_vars

\* A summary of two records has been printed while a draft is open.
C13_Witness == Summarised /\ Len(Filtered) = 2 /\ active # None

---------------------------------------------------------------------------
(* Record shape *)

\* C14: format-specific fields never cross formats in the collection: a cash
\* record has buyin_total, prize_total and roi absent; an mtt or spin record
\* has hands, bb_value, bb_profit and bb_per_100 absent.
C14_FormatFieldsDoNotCross ==
    \A i \in 1..Len(rows) :
        /\ rows[i].format = "cash" =>
              /\ rows[i].buyin_total = None
              /\ rows[i].prize_total = None
              /\ rows[i].roi = None
        /\ IsTourney(rows[i].format) =>
              /\ rows[i].hands = None
              /\ rows[i].bb_value = None
              /\ rows[i].bb_profit = None
              /\ rows[i].bb_per_100 = None

\* The collection holds a cash record with its bb metrics, finalized from a
\* draft, next to a tournament record with its ROI.
C14_Witness ==
    /\ Len(rows) = 2
    /\ \E i, j \in 1..2 :
          /\ rows[i].format = "cash" /\ rows[i].bb_per_100 # None
          /\ rows[j].format = "mtt" /\ rows[j].roi # None
    /\ Ran("end", 0)

===========================================================================
